---- MODULE Spec2Model ----
(***************************************************************************)
(* Model of the CSVFolderGenerator utilities:                              *)
(*   - src/src/assets/create_folders_from_csv.py  (folder derivation)      *)
(*   - src/src/assets/reorder.py                  (CSV reorder engine)     *)
(*   - src/main.py start_folder_creation          (the caller's handlers)  *)
(* Python strings are modelled as sequences of one-character strings so    *)
(* that strip, lower, upper, replace, join and strptime are computed the   *)
(* way the library computes them.                                          *)
(***************************************************************************)
EXTENDS Integers, Sequences, FiniteSets, TLC

VARIABLES
    \* ---- sanitize_folder_name applied to an arbitrary name ----
    san_pc, san_in, san_out, san_out2,
    \* ---- create_folders_from_csv_* and its caller ----
    f_pc, mode, separator, csv_file, header_mapping, actual_headers, row_idx,
    created_folders, skipped_rows, dirs, raised, failed_rows, ui_branch,
    \* ---- CSVReorder.reorder_csv ----
    r_pc, config, input_file, sorted_data, r_result, out_file,
    \* ---- CSVReorder.reorder_csv_safe ----
    safe_result

san_vars == <<san_pc, san_in, san_out, san_out2>>
f_vars == <<f_pc, mode, separator, csv_file, header_mapping, actual_headers, row_idx,
            created_folders, skipped_rows, dirs, raised, failed_rows, ui_branch>>
r_vars == <<r_pc, config, input_file, sorted_data, r_result, out_file, safe_result>>
vars == <<san_vars, f_vars, r_vars>>

\* ------------------------------------------------------------------------
\* Bounds of the model
\* ------------------------------------------------------------------------
MaxNameLen == 3
MaxRows == 3

\* ------------------------------------------------------------------------
\* Python str primitives over sequences of characters
\* ------------------------------------------------------------------------
\* None: told apart from every str, whose items are single characters
NoneVal == << "None" >>
\* reader.fieldnames of a file without a header line
NoFieldnames == << NoneVal >>

Printable ==
    << " ", "!", "\"", "#", "$", "%", "&", "'", "(", ")", "*", "+", ",", "-", ".", "/",
       "0", "1", "2", "3", "4", "5", "6", "7", "8", "9", ":", ";", "<", "=", ">", "?",
       "@", "A", "B", "C", "D", "E", "F", "G", "H", "I", "J", "K", "L", "M", "N", "O",
       "P", "Q", "R", "S", "T", "U", "V", "W", "X", "Y", "Z", "[", "\\", "]", "^", "_",
       "GRAVE", "a", "b", "c", "d", "e", "f", "g", "h", "i", "j", "k", "l", "m", "n", "o",
       "p", "q", "r", "s", "t", "u", "v", "w", "x", "y", "z", "{", "|", "}", "~" >>

\* ord(c) for printable ASCII (code point 96 is spelled "GRAVE", the lexer has
\* no literal for it) and for the whitespace below the space
CodePoints ==
    [c \in {Printable[i] : i \in 1..Len(Printable)} |->
        31 + (CHOOSE i \in 1..Len(Printable) : Printable[i] = c)]
    @@ ("\t" :> 9) @@ ("\n" :> 10) @@ ("\f" :> 12) @@ ("\r" :> 13)

Ord(c) == CodePoints[c]

IsUpper(c) == Ord(c) >= 65 /\ Ord(c) <= 90
IsLower(c) == Ord(c) >= 97 /\ Ord(c) <= 122
IsDigit(c) == Ord(c) >= 48 /\ Ord(c) <= 57
DigitVal(c) == Ord(c) - 48

\* str.lower() / str.upper()
str_lower(s) == [i \in 1..Len(s) |-> IF IsUpper(s[i]) THEN Printable[Ord(s[i]) + 32 - 31] ELSE s[i]]
str_upper(s) == [i \in 1..Len(s) |-> IF IsLower(s[i]) THEN Printable[Ord(s[i]) - 32 - 31] ELSE s[i]]

Whitespace == {" ", "\t", "\n", "\r", "\f"}

\* str.strip(chars): drop leading and trailing characters that are in chars
RECURSIVE lstrip(_, _)
lstrip(s, chars) ==
    IF s # <<>> /\ Head(s) \in chars THEN lstrip(Tail(s), chars) ELSE s

RECURSIVE rstrip(_, _)
rstrip(s, chars) ==
    IF s # <<>> /\ s[Len(s)] \in chars THEN rstrip(SubSeq(s, 1, Len(s) - 1), chars) ELSE s

str_strip(s, chars) == rstrip(lstrip(s, chars), chars)

\* str.replace(old, new) for a one-character old
str_replace(s, old, new) == [i \in 1..Len(s) |-> IF s[i] = old THEN new ELSE s[i]]

\* separator.join(parts)
RECURSIVE str_join(_, _)
str_join(sep, parts) ==
    IF parts = <<>> THEN <<>>
    ELSE IF Len(parts) = 1 THEN parts[1]
    ELSE parts[1] \o sep \o str_join(sep, Tail(parts))

\* str < str: lexicographic by code point
RECURSIVE str_lt(_, _)
str_lt(a, b) ==
    IF b = <<>> THEN FALSE
    ELSE IF a = <<>> THEN TRUE
    ELSE IF Head(a) = Head(b) THEN str_lt(Tail(a), Tail(b))
    ELSE Ord(Head(a)) < Ord(Head(b))

\* the strings of length 0..n over an alphabet
RECURSIVE StringsUpTo(_, _)
StringsUpTo(alphabet, n) ==
    IF n = 0 THEN {<<>>}
    ELSE LET shorter == StringsUpTo(alphabet, n - 1)
         IN shorter \cup {Append(s, c) : s \in shorter, c \in alphabet}

\* ------------------------------------------------------------------------
\* sanitize_folder_name (create_folders_from_csv.py)
\* ------------------------------------------------------------------------
invalid_chars == << "<", ">", ":", "\"", "/", "\\", "|", "?", "*" >>

RECURSIVE replace_all(_, _)
replace_all(name, chars) ==
    IF chars = <<>> THEN name
    ELSE replace_all(str_replace(name, Head(chars), "_"), Tail(chars))

\* a sanitizer that forgets the backslash in its list of invalid characters
sanitize_folder_name_NoBackslash(name) ==
    str_strip(replace_all(name, << "<", ">", ":", "\"", "/", "|", "?", "*" >>), {".", " "})

sanitize_folder_name(name) ==
    str_strip(replace_all(name, invalid_chars), {".", " "})

\* ------------------------------------------------------------------------
\* Names used by the folder-derivation functions and their caller
\* ------------------------------------------------------------------------
s_language == << "l", "a", "n", "g", "u", "a", "g", "e" >>
s_year == << "y", "e", "a", "r" >>
s_size == << "s", "i", "z", "e" >>
s_Size == << "S", "i", "z", "e" >>
s_title == << "t", "i", "t", "l", "e" >>
s_title_en == << "t", "i", "t", "l", "e", "_", "e", "n" >>
s_en_suffix == << "_", "e", "n" >>

\* defaults of the signatures: base_path is the caller's output_dir
base_path == << "o", "u", "t" >>
\* the separator argument: its default, and a path separator
Separators == { << "_" >>, << "/" >> }
filter_language == << "E", "N" >>
no_suffix_headers == {s_year, s_size}

\* ------------------------------------------------------------------------
\* csv.DictReader: a row is aligned to fieldnames; a row shorter than the
\* header holds None for the fields it lacks (restval)
\* ------------------------------------------------------------------------
InSeq(x, seq) == \E i \in 1..Len(seq) : seq[i] = x
IndexOf(x, seq) == CHOOSE i \in 1..Len(seq) : seq[i] = x

\* row.get(key, default)
row_get(fieldnames, row, key, default) ==
    IF InSeq(key, fieldnames) THEN row[IndexOf(key, fieldnames)] ELSE default

\* ------------------------------------------------------------------------
\* Exceptions: kind is the Python class that reaches the handler
\* ------------------------------------------------------------------------
NoError == [kind |-> "none", text |-> "", names |-> <<>>]
Error(kind, text, names) == [kind |-> kind, text |-> text, names |-> names]

\* the built-in exception classes the code meets, each with its base class
BaseClass ==
    [ Exception |-> "BaseException", OSError |-> "Exception", ValueError |-> "Exception",
      TypeError |-> "Exception", AttributeError |-> "Exception",
      FileNotFoundError |-> "OSError", FileExistsError |-> "OSError",
      PermissionError |-> "OSError", CSVReorderError |-> "Exception" ]

\* "except cls" catches an exception of class kind
RECURSIVE IsInstance(_, _)
IsInstance(kind, cls) ==
    \/ kind = cls
    \/ kind \in DOMAIN BaseClass /\ IsInstance(BaseClass[kind], cls)

\* the except clauses that close both folder functions
except_clauses(e) ==
    IF IsInstance(e.kind, "FileNotFoundError")
    THEN Error("FileNotFoundError", "CSV file not found", <<>>)
    ELSE Error("Exception", "Error processing CSV: " \o e.text, e.names)

\* ------------------------------------------------------------------------
\* os.path.join and Path.mkdir(parents=True, exist_ok=True)
\* ------------------------------------------------------------------------
path_join(base, name) ==
    IF name # <<>> /\ Head(name) = "/" THEN name
    ELSE IF base = <<>> \/ base[Len(base)] = "/" THEN base \o name
    ELSE base \o << "/" >> \o name

\* the components of a path: split on "/", empty and "." components dropped
RECURSIVE split_path(_, _, _)
split_path(path, current, acc) ==
    LET closed == IF current = <<>> \/ current = << "." >> THEN acc ELSE Append(acc, current)
    IN IF path = <<>> THEN closed
       ELSE IF Head(path) = "/" THEN split_path(Tail(path), <<>>, closed)
       ELSE split_path(Tail(path), Append(current, Head(path)), acc)

PathComponents(path) == split_path(path, <<>>, <<>>)

\* the directories mkdir(parents=True) makes sure exist: the path and its ancestors
mkdir_parents(path) ==
    LET comps == PathComponents(path)
    IN {SubSeq(comps, 1, k) : k \in 1..Len(comps)}

\* ------------------------------------------------------------------------
\* Header resolution
\* ------------------------------------------------------------------------
\* [h for h in wanted if h not in csv_headers]
RECURSIVE missing_from(_, _)
missing_from(wanted, csv_headers) ==
    IF wanted = <<>> THEN <<>>
    ELSE IF InSeq(Head(wanted), csv_headers) THEN missing_from(Tail(wanted), csv_headers)
    ELSE << Head(wanted) >> \o missing_from(Tail(wanted), csv_headers)

\* a resolver that compares the header itself, not its lower-cased form
resolve_auto_en_CaseSensitive(headers) ==
    [i \in 1..Len(headers) |->
        IF headers[i] \in no_suffix_headers THEN headers[i]
        ELSE headers[i] \o s_en_suffix]

\* auto-suffix mode: the actual_headers loop
resolve_auto_en(headers) ==
    [i \in 1..Len(headers) |->
        IF str_lower(headers[i]) \in no_suffix_headers THEN headers[i]
        ELSE headers[i] \o s_en_suffix]

\* the headers a mode reads from each row
resolved_headers(m, headers) ==
    IF m = "auto" THEN resolve_auto_en(headers) ELSE headers

\* the checks between opening the file and the row loop; NoError when they pass
validate_headers(m, file, headers) ==
    IF ~file.exists THEN Error("FileNotFoundError", "No such file or directory", <<>>)
    ELSE IF file.fieldnames = NoFieldnames
    THEN Error("TypeError", "argument of type 'NoneType' is not iterable", <<>>)
    ELSE LET missing_headers == missing_from(resolved_headers(m, headers), file.fieldnames)
         IN IF missing_headers # <<>>
            THEN Error("ValueError", "Headers not found in CSV", missing_headers)
            ELSE IF m = "language" /\ ~InSeq(s_language, file.fieldnames)
            THEN Error("ValueError", "CSV must have a 'language' column for filtering", <<>>)
            ELSE NoError

\* ------------------------------------------------------------------------
\* One iteration of the row loop
\* ------------------------------------------------------------------------
\* the folder_parts loop: trimmed non-empty values in header order
RECURSIVE folder_parts(_, _, _)
folder_parts(fieldnames, row, headers) ==
    IF headers = <<>> THEN <<>>
    ELSE LET value == str_strip(row_get(fieldnames, row, Head(headers), <<>>), Whitespace)
             rest == folder_parts(fieldnames, row, Tail(headers))
         IN IF value # <<>> THEN << value >> \o rest ELSE rest

\* a filter that compares the trimmed value as written, without upper()
language_matches_CaseSensitive(fieldnames, row) ==
    str_strip(row_get(fieldnames, row, s_language, <<>>), Whitespace) = filter_language

\* the language filter of language mode
language_matches(fieldnames, row) ==
    str_upper(str_strip(row_get(fieldnames, row, s_language, <<>>), Whitespace))
        = str_upper(filter_language)

\* a name that is joined and never sanitized
folder_name_Unsanitized(fieldnames, row, headers) ==
    str_join(separator, folder_parts(fieldnames, row, headers))

\* separator.join(folder_parts), then sanitize_folder_name
folder_name(fieldnames, row, headers) ==
    sanitize_folder_name(str_join(separator, folder_parts(fieldnames, row, headers)))

folder_path(fieldnames, row, headers) ==
    path_join(base_path, folder_name(fieldnames, row, headers))

\* what Path(folder_path).mkdir can raise for one row
MkdirErrors == {"FileExistsError", "PermissionError"}

\* an inner handler that lets the errors of mkdir through
inner_except_catches_ValueErrorOnly(kind) == IsInstance(kind, "ValueError")

\* the "except Exception as e" around mkdir and append
inner_except_catches(kind) == IsInstance(kind, "Exception")

\* what one iteration does with its row, in the order the code decides it:
\* None.strip() raises AttributeError when the row lacks a field it is asked for
row_step(m, fieldnames, row, headers) ==
    IF m = "language" /\ row_get(fieldnames, row, s_language, <<>>) = NoneVal
    THEN "AttributeError"
    ELSE IF m = "language" /\ ~language_matches(fieldnames, row)
    THEN "filtered"
    ELSE IF \E i \in 1..Len(headers) : row_get(fieldnames, row, headers[i], <<>>) = NoneVal
    THEN "AttributeError"
    ELSE IF folder_parts(fieldnames, row, headers) = <<>>
    THEN "no_parts"
    ELSE "mkdir"

\* ------------------------------------------------------------------------
\* Inputs of the folder-derivation functions
\* ------------------------------------------------------------------------
Modes == {"language", "auto"}

HeaderMappings == { << s_year, s_title >>, << s_Size, s_title >> }

LanguageCells == { << " ", "e", "n" >>, << "C", "N" >> }
YearCells == { << "2", "0", "0", "0" >>, <<>> }
TitleCells == { << "A" >>, << " ", "." >> }
TitleEnCells == { << "A" >>, << " ", "." >>, << "a", "/", "b" >> }

LanguageFieldnames == << s_language, s_year, s_title >>
AutoFieldnames == << s_year, s_title_en >>

LanguageRows ==
    {<< l, y, t >> : l \in LanguageCells, y \in YearCells, t \in TitleCells}
        \cup { << << " ", "e", "n" >>, NoneVal, NoneVal >>,
               << << "C", "N" >>, NoneVal, NoneVal >> }

AutoRows ==
    {<< y, t >> : y \in YearCells, t \in TitleEnCells}
        \cup { << << "2", "0", "0", "0" >>, NoneVal >> }

CsvFiles ==
    { [exists |-> FALSE, fieldnames |-> NoFieldnames, rows |-> <<>>],
      [exists |-> TRUE, fieldnames |-> NoFieldnames, rows |-> <<>>] }
    \cup {[exists |-> TRUE, fieldnames |-> LanguageFieldnames, rows |-> rs] :
            rs \in StringsUpTo(LanguageRows, MaxRows)}
    \cup {[exists |-> TRUE, fieldnames |-> AutoFieldnames, rows |-> rs] :
            rs \in StringsUpTo(AutoRows, MaxRows)}

\* ------------------------------------------------------------------------
\* The folder-derivation functions, statement by statement
\* ------------------------------------------------------------------------
FoldersInit ==
    /\ f_pc = "start"
    /\ mode \in Modes
    /\ separator \in Separators
    /\ csv_file \in CsvFiles
    /\ header_mapping \in HeaderMappings
    /\ actual_headers = <<>>
    /\ row_idx = 0
    /\ created_folders = <<>>
    /\ skipped_rows = 0
    /\ dirs = {}
    /\ raised = NoError
    /\ failed_rows = {}
    /\ ui_branch = "none"

\* Path(base_path).mkdir(parents=True, exist_ok=True), before the try
mkdir_base_path(m) ==
    /\ f_pc = "start"
    /\ mode = m
    /\ dirs' = dirs \cup mkdir_parents(base_path)
    /\ f_pc' = "open"
    /\ UNCHANGED <<mode, separator, csv_file, header_mapping, actual_headers, row_idx,
                   created_folders, skipped_rows, raised, failed_rows, ui_branch>>

\* open the file, read the header, resolve and check the headers
open_and_validate(m) ==
    /\ f_pc = "open"
    /\ mode = m
    /\ LET e == validate_headers(m, csv_file, header_mapping)
       IN IF e # NoError
          THEN /\ raised' = except_clauses(e)
               /\ f_pc' = "raised"
               /\ UNCHANGED row_idx
          ELSE /\ row_idx' = 1
               /\ f_pc' = "rows"
               /\ UNCHANGED raised
    /\ actual_headers' = IF csv_file.exists THEN resolved_headers(m, header_mapping)
                         ELSE actual_headers
    /\ UNCHANGED <<mode, separator, csv_file, header_mapping, created_folders, skipped_rows,
                   dirs, failed_rows, ui_branch>>

\* one iteration of "for row_num, row in enumerate(reader, start=2)"
process_row(m) ==
    /\ f_pc = "rows"
    /\ mode = m
    /\ row_idx <= Len(csv_file.rows)
    /\ LET row == csv_file.rows[row_idx]
           step == row_step(m, csv_file.fieldnames, row, actual_headers)
           path == folder_path(csv_file.fieldnames, row, actual_headers)
       IN \/ /\ step = "AttributeError"
             /\ raised' = except_clauses(
                    Error("AttributeError", "'NoneType' object has no attribute 'strip'", <<>>))
             /\ f_pc' = "raised"
             /\ UNCHANGED <<row_idx, created_folders, skipped_rows, dirs, failed_rows>>
          \/ /\ step = "filtered"
             /\ skipped_rows' = skipped_rows + 1
             /\ row_idx' = row_idx + 1
             /\ UNCHANGED <<f_pc, created_folders, dirs, raised, failed_rows>>
          \/ /\ step = "no_parts"
             /\ row_idx' = row_idx + 1
             /\ UNCHANGED <<f_pc, created_folders, skipped_rows, dirs, raised, failed_rows>>
          \/ \* Path(folder_path).mkdir(...) succeeds
             /\ step = "mkdir"
             /\ dirs' = dirs \cup mkdir_parents(path)
             /\ created_folders' = Append(created_folders, path)
             /\ row_idx' = row_idx + 1
             /\ UNCHANGED <<f_pc, skipped_rows, raised, failed_rows>>
          \/ \* Path(folder_path).mkdir(...) raises: the inner except prints and the
             \* loop goes on; an error it does not catch reaches the outer clauses
             /\ step = "mkdir"
             /\ \E kind \in MkdirErrors :
                   IF inner_except_catches(kind)
                   THEN /\ row_idx' = row_idx + 1
                        /\ UNCHANGED <<f_pc, raised>>
                   ELSE /\ raised' = except_clauses(Error(kind, "mkdir failed", <<>>))
                        /\ f_pc' = "raised"
                        /\ UNCHANGED row_idx
             /\ failed_rows' = failed_rows \cup {row_idx}
             /\ UNCHANGED <<created_folders, skipped_rows, dirs>>
    /\ UNCHANGED <<mode, separator, csv_file, header_mapping, actual_headers, ui_branch>>

\* the reader is exhausted: return created_folders
return_created_folders(m) ==
    /\ f_pc = "rows"
    /\ mode = m
    /\ row_idx > Len(csv_file.rows)
    /\ f_pc' = "returned"
    /\ UNCHANGED <<mode, separator, csv_file, header_mapping, actual_headers, row_idx,
                   created_folders, skipped_rows, dirs, raised, failed_rows, ui_branch>>

create_folders_from_csv_language_en ==
    \/ mkdir_base_path("language")
    \/ open_and_validate("language")
    \/ process_row("language")
    \/ return_created_folders("language")

create_folders_from_csv_auto_en ==
    \/ mkdir_base_path("auto")
    \/ open_and_validate("auto")
    \/ process_row("auto")
    \/ return_created_folders("auto")

\* the try/except of CSVFolderGeneratorApp.start_folder_creation around the call
start_folder_creation ==
    /\ f_pc \in {"returned", "raised"}
    /\ ui_branch = "none"
    /\ ui_branch' = IF f_pc = "returned" THEN "Success"
                    ELSE IF IsInstance(raised.kind, "ValueError") THEN "Header Error"
                    ELSE "Error"
    /\ UNCHANGED <<f_pc, mode, separator, csv_file, header_mapping, actual_headers, row_idx,
                   created_folders, skipped_rows, dirs, raised, failed_rows>>

FoldersNext ==
    \/ create_folders_from_csv_language_en
    \/ create_folders_from_csv_auto_en
    \/ start_folder_creation

\* the state of the folder functions while another utility is exercised
FoldersIdle ==
    /\ f_pc = "idle"
    /\ mode = "language"
    /\ separator = << "_" >>
    /\ csv_file = [exists |-> FALSE, fieldnames |-> NoFieldnames, rows |-> <<>>]
    /\ header_mapping = <<>>
    /\ actual_headers = <<>>
    /\ row_idx = 0
    /\ created_folders = <<>>
    /\ skipped_rows = 0
    /\ dirs = {}
    /\ raised = NoError
    /\ failed_rows = {}
    /\ ui_branch = "none"

\* ------------------------------------------------------------------------
\* sanitize_folder_name as a function of an arbitrary name
\* ------------------------------------------------------------------------
SanitizeAlphabet == { "<", ">", ":", "\"", "/", "\\", "|", "?", "*", ".", " ", "_", "a" }

SanitizeInit ==
    /\ san_pc = "input"
    /\ san_in \in StringsUpTo(SanitizeAlphabet, MaxNameLen)
    /\ san_out = <<>>
    /\ san_out2 = <<>>

SanitizeIdle ==
    /\ san_pc = "idle"
    /\ san_in = <<>>
    /\ san_out = <<>>
    /\ san_out2 = <<>>

\* name = sanitize_folder_name(name)
SanitizeOnce ==
    /\ san_pc = "input"
    /\ san_out' = sanitize_folder_name(san_in)
    /\ san_pc' = "once"
    /\ UNCHANGED <<san_in, san_out2>>

\* the result fed back to sanitize_folder_name
SanitizeTwice ==
    /\ san_pc = "once"
    /\ san_out2' = sanitize_folder_name(san_out)
    /\ san_pc' = "twice"
    /\ UNCHANGED <<san_in, san_out>>

SanitizeNext == SanitizeOnce \/ SanitizeTwice

\* ------------------------------------------------------------------------
\* datetime.strptime for the directives DATE_FORMATS uses (reorder.py)
\* ------------------------------------------------------------------------
DATE_FORMATS ==
    << << "%Y", "-", "%m", "-", "%d" >>,
       << "%Y", "/", "%m", "/", "%d" >>,
       << "%d", "-", "%m", "-", "%Y" >>,
       << "%d", "/", "%m", "/", "%Y" >>,
       << "%Y" >>,
       << "%Y", "-", "%m" >>,
       << "%m", "-", "%Y" >>,
       << "%m", "/", "%d", "/", "%Y" >>,
       << "%d", ".", "%m", ".", "%Y" >>,
       << "%Y", ".", "%m", ".", "%d" >> >>

DigitAt(s, p) == p <= Len(s) /\ IsDigit(s[p])
NonZeroDigitAt(s, p) == DigitAt(s, p) /\ s[p] # "0"
TwoDigits(s, p) == 10 * DigitVal(s[p]) + DigitVal(s[p + 1])

\* the lengths the regex of a directive can consume at p, in the order the
\* regex tries its alternatives:
\*   %Y  \d\d\d\d
\*   %m  1[0-2] | 0[1-9] | [1-9]
\*   %d  3[0-1] | [1-2]\d | 0[1-9] | [1-9] | " "[1-9]
directive_lengths(d, s, p) ==
    IF d = "%Y"
    THEN IF \A k \in 0..3 : DigitAt(s, p + k) THEN << 4 >> ELSE <<>>
    ELSE LET two == DigitAt(s, p) /\ DigitAt(s, p + 1) /\ TwoDigits(s, p) >= 1
                    /\ TwoDigits(s, p) <= (IF d = "%m" THEN 12 ELSE 31)
             one == NonZeroDigitAt(s, p)
             padded == d = "%d" /\ p <= Len(s) /\ s[p] = " " /\ NonZeroDigitAt(s, p + 1)
         IN (IF two THEN << 2 >> ELSE <<>>) \o (IF one THEN << 1 >> ELSE <<>>)
            \o (IF padded THEN << 2 >> ELSE <<>>)

\* int() of the text a directive consumed
RECURSIVE int_of(_)
int_of(t) ==
    IF t = <<>> THEN 0
    ELSE IF t[Len(t)] = " " THEN int_of(SubSeq(t, 1, Len(t) - 1))
    ELSE 10 * int_of(SubSeq(t, 1, Len(t) - 1)) + DigitVal(t[Len(t)])

NoMatch == [ok |-> FALSE, end |-> 0, Y |-> 1900, m |-> 1, d |-> 1]

\* re.match of the format's regex at position p: the first match in the
\* backtracking order (found carries the fields matched so far)
RECURSIVE regex_match(_, _, _, _)
RECURSIVE try_lengths(_, _, _, _, _)
regex_match(fmt, s, p, found) ==
    IF fmt = <<>> THEN [found EXCEPT !.ok = TRUE, !.end = p]
    ELSE IF Head(fmt) \in {"%Y", "%m", "%d"}
    THEN try_lengths(directive_lengths(Head(fmt), s, p), fmt, s, p, found)
    ELSE IF p <= Len(s) /\ s[p] = Head(fmt)
    THEN regex_match(Tail(fmt), s, p + 1, found)
    ELSE NoMatch

try_lengths(lens, fmt, s, p, found) ==
    IF lens = <<>> THEN NoMatch
    ELSE LET n == Head(lens)
             v == int_of(SubSeq(s, p, p + n - 1))
             f == IF Head(fmt) = "%Y" THEN [found EXCEPT !.Y = v]
                  ELSE IF Head(fmt) = "%m" THEN [found EXCEPT !.m = v]
                  ELSE [found EXCEPT !.d = v]
             r == regex_match(Tail(fmt), s, p + n, f)
         IN IF r.ok THEN r ELSE try_lengths(Tail(lens), fmt, s, p, found)

IsLeap(y) == y % 4 = 0 /\ (y % 100 # 0 \/ y % 400 = 0)
DaysInMonth(y, m) ==
    IF m = 2 THEN (IF IsLeap(y) THEN 29 ELSE 28)
    ELSE IF m \in {4, 6, 9, 11} THEN 30 ELSE 31

\* datetime.strptime(s, fmt): a date, or the ValueError of unmatched text,
\* unconverted remaining data, year 0 or a day the month does not have
strptime(s, fmt) ==
    LET r == regex_match(fmt, s, 1, NoMatch)
    IN IF r.ok /\ r.end = Len(s) + 1 /\ r.Y >= 1 /\ r.d <= DaysInMonth(r.Y, r.m)
       THEN [ok |-> TRUE, date |-> << r.Y, r.m, r.d >>]
       ELSE [ok |-> FALSE, date |-> <<>>]

\* components of a sort key
IntKey(n) == [type |-> "int", v |-> n]
StrKey(s) == [type |-> "str", v |-> s]
DateKey(d) == [type |-> "datetime", v |-> d]

RECURSIVE first_format(_, _)
first_format(s, fmts) ==
    IF fmts = <<>> THEN StrKey(s)
    ELSE IF strptime(s, Head(fmts)).ok THEN DateKey(strptime(s, Head(fmts)).date)
    ELSE first_format(s, Tail(fmts))

\* CSVReorder.parse_date
parse_date(date_string) ==
    IF str_strip(date_string, Whitespace) = <<>> THEN StrKey(date_string)
    ELSE first_format(str_strip(date_string, Whitespace), DATE_FORMATS)

\* ------------------------------------------------------------------------
\* CSVReorder: configuration, validation and sort key
\* ------------------------------------------------------------------------
language_order == << << "E", "N" >>, << "C", "N" >> >>
language_column == s_language

SortColumn(name, is_date) == [name |-> name, is_date |-> is_date]

CSVReorderError(text, names) == Error("CSVReorderError", text, names)

\* _read_csv_file: its result, or the CSVReorderError its except clauses raise
read_csv_file(file) ==
    IF file.zero_bytes
    THEN CSVReorderError("Error reading CSV file: CSV file is empty", {})
    ELSE IF ~file.sniffable
    THEN CSVReorderError("CSV parsing error: Could not determine delimiter", {})
    ELSE IF file.fieldnames = NoFieldnames \/ file.fieldnames = <<>>
    THEN CSVReorderError("Error reading CSV file: CSV file has no header row", {})
    ELSE NoError

\* _validate_csv_columns
validate_csv_columns(cfg, fieldnames) ==
    LET sort_names == {cfg.sort_columns[i].name : i \in 1..Len(cfg.sort_columns)}
        missing == {n \in sort_names : ~InSeq(n, fieldnames)}
    IN IF fieldnames = <<>>
       THEN CSVReorderError("CSV file has no columns", {})
       ELSE IF missing # {}
       THEN CSVReorderError("Sort columns missing", missing)
       ELSE IF cfg.use_language_sorting /\ ~InSeq(language_column, fieldnames)
       THEN CSVReorderError("Language column missing", {language_column})
       ELSE NoError

\* an index that ranks a language missing from language_order before all others
language_index_UnknownFirst(lang) ==
    IF InSeq(lang, language_order) THEN IndexOf(lang, language_order) - 1
    ELSE 0 - 1

\* language_order.index(lang), len(language_order) when lang is not in it
language_index(lang) ==
    IF InSeq(lang, language_order) THEN IndexOf(lang, language_order) - 1
    ELSE Len(language_order)

\* the key component of one sort column
column_key(col, fieldnames, row) ==
    LET val == row_get(fieldnames, row, col.name, <<>>)
        truthy == val # NoneVal /\ val # <<>>
    IN IF col.is_date /\ truthy THEN parse_date(val)
       ELSE StrKey(IF truthy THEN str_lower(val) ELSE <<>>)

\* _create_sort_key raises when the language value is None (None.strip())
sort_key_raises(cfg, fieldnames, row) ==
    cfg.use_language_sorting /\ row_get(fieldnames, row, language_column, <<>>) = NoneVal

\* _create_sort_key: the tuple of key parts
create_sort_key(cfg, fieldnames, row) ==
    (IF cfg.use_language_sorting
     THEN << IntKey(language_index(
                 str_strip(row_get(fieldnames, row, language_column, <<>>), Whitespace))) >>
     ELSE <<>>)
    \o [i \in 1..Len(cfg.sort_columns) |-> column_key(cfg.sort_columns[i], fieldnames, row)]

\* ------------------------------------------------------------------------
\* Comparison of key tuples, as the interpreter compares them
\* ------------------------------------------------------------------------
\* == of two key parts: parts of different types are never equal
part_eq(a, b) == a.type = b.type /\ a.v = b.v

RECURSIVE seq_lt(_, _)
seq_lt(a, b) ==
    IF a = <<>> \/ b = <<>> THEN FALSE
    ELSE IF Head(a) # Head(b) THEN Head(a) < Head(b)
    ELSE seq_lt(Tail(a), Tail(b))

\* a < b for two key parts: "lt", "ge", or the TypeError of str against datetime
part_lt(a, b) ==
    IF a.type # b.type THEN "TypeError"
    ELSE IF a.type = "int" THEN (IF a.v < b.v THEN "lt" ELSE "ge")
    ELSE IF a.type = "str" THEN (IF str_lt(a.v, b.v) THEN "lt" ELSE "ge")
    ELSE (IF seq_lt(a.v, b.v) THEN "lt" ELSE "ge")

\* tuple < tuple: the first position where the tuples differ decides
RECURSIVE tuple_lt(_, _)
tuple_lt(k1, k2) ==
    IF k2 = <<>> THEN "ge"
    ELSE IF k1 = <<>> THEN "lt"
    ELSE IF part_eq(Head(k1), Head(k2)) THEN tuple_lt(Tail(k1), Tail(k2))
    ELSE part_lt(Head(k1), Head(k2))

\* ------------------------------------------------------------------------
\* sorted(data, key=..., reverse=...): the list sort of the interpreter for
\* lists shorter than 64 items (one run, then binary insertion).  lst holds
\* row numbers, keys[n] is the key of row n.  A sort state is
\* [err |-> a comparison raised, lst |-> the list].
\* ------------------------------------------------------------------------
Reverse(seq) == [i \in 1..Len(seq) |-> seq[Len(seq) + 1 - i]]

ISLT(keys, x, y) == tuple_lt(keys[x], keys[y])

\* count_run: the length of the run that starts the list, and whether it descends
RECURSIVE extend_run(_, _, _, _)
extend_run(keys, lst, n, descending) ==
    IF n >= Len(lst) THEN [err |-> FALSE, n |-> n, descending |-> descending]
    ELSE LET c == ISLT(keys, lst[n + 1], lst[n])
         IN IF c = "TypeError" THEN [err |-> TRUE, n |-> n, descending |-> descending]
            ELSE IF (c = "lt") = descending THEN extend_run(keys, lst, n + 1, descending)
            ELSE [err |-> FALSE, n |-> n, descending |-> descending]

count_run(keys, lst) ==
    IF Len(lst) < 2 THEN [err |-> FALSE, n |-> Len(lst), descending |-> FALSE]
    ELSE LET c == ISLT(keys, lst[2], lst[1])
         IN IF c = "TypeError" THEN [err |-> TRUE, n |-> 1, descending |-> FALSE]
            ELSE extend_run(keys, lst, 2, c = "lt")

\* binarysort: the place of pivot in the sorted prefix lst[l..r-1]
RECURSIVE binary_search(_, _, _, _, _)
binary_search(keys, lst, pivot, l, r) ==
    IF l >= r THEN [err |-> FALSE, at |-> l]
    ELSE LET p == l + ((r - l) \div 2)
             c == ISLT(keys, pivot, lst[p])
         IN IF c = "TypeError" THEN [err |-> TRUE, at |-> l]
            ELSE IF c = "lt" THEN binary_search(keys, lst, pivot, l, p)
            ELSE binary_search(keys, lst, pivot, p + 1, r)

RECURSIVE binarysort(_, _, _)
binarysort(keys, lst, start) ==
    IF start > Len(lst) THEN [err |-> FALSE, lst |-> lst]
    ELSE LET pivot == lst[start]
             found == binary_search(keys, lst, pivot, 1, start)
             moved == SubSeq(lst, 1, found.at - 1) \o << pivot >>
                      \o SubSeq(lst, found.at, start - 1) \o SubSeq(lst, start + 1, Len(lst))
         IN IF found.err THEN [err |-> TRUE, lst |-> lst]
            ELSE binarysort(keys, moved, start + 1)

list_sort(keys, lst) ==
    LET run == count_run(keys, lst)
        straight == IF run.descending
                    THEN Reverse(SubSeq(lst, 1, run.n)) \o SubSeq(lst, run.n + 1, Len(lst))
                    ELSE lst
    IN IF run.err THEN [err |-> TRUE, lst |-> lst]
       ELSE binarysort(keys, straight, run.n + 1)

\* a reverse sort that sorts ascending and then reverses the result, without
\* reversing the list beforehand
sorted_ReverseAfterOnly(keys, lst, reverse) ==
    IF reverse
    THEN LET r == list_sort(keys, lst)
         IN [err |-> r.err, lst |-> Reverse(r.lst)]
    ELSE list_sort(keys, lst)

\* sorted(lst, reverse=reverse): a reverse sort reverses the list, sorts it
\* ascending and reverses the result, which keeps equal items in input order
sorted(keys, lst, reverse) ==
    IF reverse
    THEN LET r == list_sort(keys, Reverse(lst))
         IN [err |-> r.err, lst |-> Reverse(r.lst)]
    ELSE list_sort(keys, lst)

\* ------------------------------------------------------------------------
\* Inputs of CSVReorder.reorder_csv
\* ------------------------------------------------------------------------
SortColumnChoices ==
    { << SortColumn(s_year, TRUE) >>,
      << SortColumn(s_year, FALSE) >>,
      << SortColumn(s_language, FALSE), SortColumn(s_year, TRUE) >>,
      << SortColumn(s_title, FALSE), SortColumn(s_size, FALSE) >> }

ReorderConfigs ==
    [sort_columns : SortColumnChoices, reverse : BOOLEAN, use_language_sorting : BOOLEAN]

ReorderFieldnames == << s_language, s_year >>
YearFieldnames == << s_year >>

ReorderLanguageCells == { << "E", "N" >>, << "C", "N", " " >>, << "F", "R" >> }
ReorderYearCells == { << "2", "0", "0", "0" >>, << "n", "/", "a" >>, <<>> }

ReorderRows ==
    {<< l, y >> : l \in ReorderLanguageCells, y \in ReorderYearCells}
        \cup { << << "E", "N" >>, << "1", "9", "9", "9", "-", "0", "5" >> >>,
               << << "E", "N" >>, NoneVal >> }

YearLanguageFieldnames == << s_year, s_language >>
YearLanguageRows ==
    { << << "2", "0", "0", "0" >>, << "E", "N" >> >>,
      << << "n", "/", "a" >>, << "F", "R" >> >>,
      << << "2", "0", "0", "0" >>, NoneVal >> }

\* the last row has one field more than the header: DictReader keeps the
\* surplus under the key None (restkey)
YearRows ==
    {<< y >> : y \in ReorderYearCells \cup { << "1", "9", "9", "9", "-", "0", "5" >> }}
        \cup { << << "2", "0", "0", "0" >>, << "x" >> >> }

InputFile(exists, zero_bytes, sniffable, fieldnames, data) ==
    [exists |-> exists, zero_bytes |-> zero_bytes, sniffable |-> sniffable,
     fieldnames |-> fieldnames, data |-> data]

InputFiles ==
    { InputFile(FALSE, FALSE, FALSE, NoFieldnames, <<>>),
      InputFile(TRUE, TRUE, FALSE, NoFieldnames, <<>>) }
    \cup {InputFile(TRUE, FALSE, FALSE, ReorderFieldnames, d) : d \in StringsUpTo(ReorderRows, 1)}
    \cup {InputFile(TRUE, FALSE, TRUE, ReorderFieldnames, d) : d \in StringsUpTo(ReorderRows, MaxRows)}
    \cup {InputFile(TRUE, FALSE, TRUE, YearFieldnames, d) : d \in StringsUpTo(YearRows, MaxRows)}
    \cup {InputFile(TRUE, FALSE, TRUE, YearLanguageFieldnames, d) :
            d \in StringsUpTo(YearLanguageRows, MaxRows)}

\* ------------------------------------------------------------------------
\* CSVReorder.reorder_csv
\* ------------------------------------------------------------------------
\* no file at output_dir / (output_prefix + input name)
NoFile == [exists |-> FALSE, fieldnames |-> <<>>, rows |-> <<>>]

\* reorder_csv_safe has not come back to its caller
NoResult == [kind |-> "pending", text |-> ""]

ReorderInit ==
    /\ r_pc = "start"
    /\ config \in ReorderConfigs
    /\ input_file \in InputFiles
    /\ sorted_data = <<>>
    /\ r_result = NoError
    /\ out_file = NoFile
    /\ safe_result = NoResult

ReorderIdle ==
    /\ r_pc = "idle"
    /\ config = [sort_columns |-> <<>>, reverse |-> FALSE, use_language_sorting |-> FALSE]
    /\ input_file = InputFile(FALSE, FALSE, FALSE, NoFieldnames, <<>>)
    /\ sorted_data = <<>>
    /\ r_result = NoError
    /\ out_file = NoFile
    /\ safe_result = NoResult

\* the keys of all rows, computed before any comparison
RECURSIVE sort_keys(_, _, _)
sort_keys(cfg, fieldnames, data) ==
    IF data = <<>> THEN <<>>
    ELSE << create_sort_key(cfg, fieldnames, Head(data)) >>
         \o sort_keys(cfg, fieldnames, Tail(data))

\* the sort of the rows, by row number
sort_rows(cfg, file) ==
    sorted(sort_keys(cfg, file.fieldnames, file.data),
           [n \in 1..Len(file.data) |-> n], cfg.reverse)

\* the checks and the sort of reorder_csv, up to the first failure: error is
\* the exception that reaches the caller, NoError when lst, the sorted row
\* numbers, is ready to be written
reorder_checks_and_sort(cfg, file) ==
    LET failed(e) == [error |-> e, lst |-> <<>>]
        read == read_csv_file(file)
        columns == validate_csv_columns(cfg, file.fieldnames)
        result == sort_rows(cfg, file)
    IN IF ~file.exists THEN failed(CSVReorderError("Input file not found", {}))
       ELSE IF read # NoError THEN failed(read)
       ELSE IF file.data = <<>>
       THEN failed(CSVReorderError("The input CSV file contains no data rows", {}))
       ELSE IF columns # NoError THEN failed(columns)
       ELSE IF \E n \in 1..Len(file.data) : sort_key_raises(cfg, file.fieldnames, file.data[n])
       THEN failed(CSVReorderError(
                "Error creating sort key: 'NoneType' object has no attribute 'strip'", {}))
       ELSE IF result.err
       THEN failed(CSVReorderError(
                "Unexpected error during CSV reordering: '<' not supported", {}))
       ELSE [error |-> NoError, lst |-> result.lst]

\* reorder_csv from its first statement to sorted(...)
reorder_csv_sort ==
    /\ r_pc = "start"
    /\ LET run == reorder_checks_and_sort(config, input_file)
       IN IF run.error # NoError
          THEN /\ r_result' = run.error
               /\ r_pc' = "raised"
               /\ UNCHANGED sorted_data
          ELSE /\ sorted_data' = run.lst
               /\ r_pc' = "sorted"
               /\ UNCHANGED r_result
    /\ UNCHANGED <<config, input_file, out_file, safe_result>>

\* DictWriter._dict_to_list (extrasaction="raise"): a row dict with a key that
\* is no fieldname is refused with ValueError
has_extra_fields(fieldnames, row) == Len(row) > Len(fieldnames)

\* DictWriter._dict_to_list: the values in fieldnames order, None written as ""
dict_to_list(fieldnames, row) ==
    [i \in 1..Len(fieldnames) |-> IF row[i] = NoneVal THEN <<>> ELSE row[i]]

\* writer.writerows(data): rows reach the file one by one, in list order, up
\* to the first row that _dict_to_list refuses
RECURSIVE writerows(_, _, _)
writerows(fieldnames, data, lst) ==
    IF lst = <<>> THEN [err |-> FALSE, rows |-> <<>>]
    ELSE IF has_extra_fields(fieldnames, data[Head(lst)]) THEN [err |-> TRUE, rows |-> <<>>]
    ELSE LET rest == writerows(fieldnames, data, Tail(lst))
         IN [err |-> rest.err,
             rows |-> << dict_to_list(fieldnames, data[Head(lst)]) >> \o rest.rows]

\* what makes parent.mkdir or open(file_path, "w") raise
OpenErrors == {"PermissionError", "FileExistsError"}

\* _write_csv_file and the return of output_path: open(..., "w") creates or
\* truncates the file, writeheader and writerows fill it, the with block
\* closes it whether or not writerows raised
reorder_csv_write ==
    /\ r_pc = "sorted"
    /\ \/ /\ \E kind \in OpenErrors :
                 IsInstance(kind, "Exception")
                     /\ r_result' = CSVReorderError("Error writing CSV file: " \o kind, {})
          /\ r_pc' = "raised"
          /\ UNCHANGED out_file
       \/ LET written == writerows(input_file.fieldnames, input_file.data, sorted_data)
          IN /\ out_file' = [exists |-> TRUE, fieldnames |-> input_file.fieldnames,
                             rows |-> written.rows]
             /\ IF written.err
                THEN /\ r_result' = CSVReorderError(
                            "Error writing CSV file: dict contains fields not in fieldnames: None",
                            {})
                     /\ r_pc' = "raised"
                ELSE /\ r_result' = [kind |-> "returned", text |-> "output_path", names |-> {}]
                     /\ r_pc' = "returned"
    /\ UNCHANGED <<config, input_file, sorted_data, safe_result>>

\* a handler that lets CSVReorderError through
safe_except_catches_OSErrorOnly(kind) == IsInstance(kind, "OSError")

\* reorder_csv_safe: "except CSVReorderError" and "except Exception"
safe_except_catches(kind) ==
    IsInstance(kind, "CSVReorderError") \/ IsInstance(kind, "Exception")

\* reorder_csv_safe around the reorder_csv call that has just ended: the path
\* is handed on, an exception of a caught class becomes None
reorder_csv_safe ==
    /\ r_pc \in {"returned", "raised"}
    /\ safe_result = NoResult
    /\ safe_result' =
           IF r_pc = "returned" THEN [kind |-> "returned", text |-> r_result.text]
           ELSE IF safe_except_catches(r_result.kind)
           THEN [kind |-> "returned", text |-> "None"]
           ELSE [kind |-> r_result.kind, text |-> r_result.text]
    /\ UNCHANGED <<r_pc, config, input_file, sorted_data, r_result, out_file>>

ReorderNext == reorder_csv_sort \/ reorder_csv_write \/ reorder_csv_safe

\* ------------------------------------------------------------------------
\* Specifications: each utility on its own inputs
\* ------------------------------------------------------------------------
InitSanitize == SanitizeInit /\ FoldersIdle /\ ReorderIdle
NextSanitize == SanitizeNext /\ UNCHANGED <<f_vars, r_vars>>
SpecSanitize == InitSanitize /\ [][NextSanitize]_vars

InitFolders == FoldersInit /\ SanitizeIdle /\ ReorderIdle
NextFolders == FoldersNext /\ UNCHANGED <<san_vars, r_vars>>
SpecFolders == InitFolders /\ [][NextFolders]_vars

InitReorder == ReorderInit /\ SanitizeIdle /\ FoldersIdle
NextReorder == ReorderNext /\ UNCHANGED <<san_vars, f_vars>>
SpecReorder == InitReorder /\ [][NextReorder]_vars

\* ------------------------------------------------------------------------
\* Properties of sanitize_folder_name
\* ------------------------------------------------------------------------
InvalidCharSet == { "<", ">", ":", "\"", "/", "\\", "|", "?", "*" }

\* C9: the sanitized name contains none of the characters < > : " / \ | ? *,
\* and sanitizing a sanitized name gives the same name again.
C9_SanitizeCleanAndIdempotent ==
    /\ san_pc \in {"once", "twice"} =>
           \A i \in 1..Len(san_out) : san_out[i] \notin InvalidCharSet
    /\ san_pc = "twice" => san_out2 = san_out

\* a name with a backslash and a trailing period has been sanitized twice
C9_Witness ==
    /\ san_pc = "twice"
    /\ \E i \in 1..Len(san_in) : san_in[i] = "\\"
    /\ Len(san_in) = MaxNameLen
    /\ san_in[Len(san_in)] = "."
    /\ Len(san_out) < Len(san_in)
    /\ san_out # <<>>

\* ------------------------------------------------------------------------
\* Properties of the folder-derivation functions
\* ------------------------------------------------------------------------
Rows == csv_file.rows
HasHeader == csv_file.exists /\ csv_file.fieldnames # NoFieldnames

\* the value of a column in row j, None where the row or the header lacks it
Cell(j, name) == row_get(csv_file.fieldnames, Rows[j], name, NoneVal)

Trimmed(v) == str_strip(v, Whitespace)

\* the column names the mode looks up, as the specification states them
ExpectedHeaders ==
    IF mode = "auto"
    THEN [i \in 1..Len(header_mapping) |->
            IF str_lower(header_mapping[i]) = s_year \/ str_lower(header_mapping[i]) = s_size
            THEN header_mapping[i]
            ELSE header_mapping[i] \o << "_", "e", "n" >>]
    ELSE header_mapping

AbsentHeaders == SelectSeq(ExpectedHeaders, LAMBDA h : ~InSeq(h, csv_file.fieldnames))

\* a whole-operation precondition fails: no file, a header absent, no language column
PreconditionFails ==
    \/ ~csv_file.exists
    \/ /\ HasHeader
       /\ \/ AbsentHeaders # <<>>
          \/ mode = "language" /\ ~InSeq(s_language, csv_file.fieldnames)

HeaderPreconditionFails == csv_file.exists /\ PreconditionFails

\* C4: when a whole-operation precondition fails, no directory has been
\* created by the call when the error reaches the caller.
C4_NoMutationBeforePreconditionError ==
    (f_pc = "raised" /\ PreconditionFails) => dirs = {}

\* C5: a missing-header failure reaches the caller as a ValueError, distinct
\* from the missing-file error and from other failures, and the caller's
\* "Header Error" branch is the one that handles it.
C5_HeaderErrorIsDistinguishable ==
    (f_pc = "raised" /\ HeaderPreconditionFails) =>
        /\ raised.kind = "ValueError"
        /\ ui_branch \in {"none", "Header Error"}

\* row j passes the language filter (language mode) and has a non-empty value
Qualifies(j) ==
    /\ mode = "language" =>
           /\ Cell(j, s_language) # NoneVal
           /\ str_upper(Trimmed(Cell(j, s_language))) = << "E", "N" >>
    /\ \A i \in 1..Len(ExpectedHeaders) : Cell(j, ExpectedHeaders[i]) # NoneVal
    /\ \E i \in 1..Len(ExpectedHeaders) : Trimmed(Cell(j, ExpectedHeaders[i])) # <<>>

\* row j lacks a field the loop asks for, so that None.strip() raises
Malformed(j) ==
    IF mode = "language" /\ Cell(j, s_language) = NoneVal THEN TRUE
    ELSE IF mode = "language" /\ str_upper(Trimmed(Cell(j, s_language))) # << "E", "N" >>
    THEN FALSE
    ELSE \E i \in 1..Len(ExpectedHeaders) : Cell(j, ExpectedHeaders[i]) = NoneVal

PathOf(j) == folder_path(csv_file.fieldnames, Rows[j], ExpectedHeaders)

RECURSIVE PathsOf(_, _)
PathsOf(j, skip) ==
    IF j = 0 THEN <<>>
    ELSE IF Qualifies(j) /\ j \notin skip THEN Append(PathsOf(j - 1, skip), PathOf(j))
    ELSE PathsOf(j - 1, skip)

\* C6: a failure to create the directory of one row is isolated to that row:
\* it never ends the call, the row's path is not recorded, and every other
\* qualifying row, before and after it, has its directory created and its
\* path recorded.
C6_RowFailureIsolated ==
    /\ \A j \in failed_rows : j < row_idx
    /\ (f_pc = "raised" /\ row_idx >= 1) => (row_idx \notin failed_rows /\ Malformed(row_idx))
    /\ f_pc = "returned" =>
           /\ created_folders = PathsOf(Len(Rows), failed_rows)
           /\ \A j \in 1..Len(Rows) :
                  (Qualifies(j) /\ j \notin failed_rows) => mkdir_parents(PathOf(j)) \subseteq dirs

\* the call returned although the directory of the middle row could not be
\* created; the rows before and after it have their folders
C6_Witness ==
    /\ f_pc = "returned"
    /\ Len(Rows) = 3
    /\ failed_rows = {2}
    /\ Qualifies(1) /\ Qualifies(2) /\ Qualifies(3)
    /\ created_folders = << PathOf(1), PathOf(3) >>
    /\ PathOf(2) # PathOf(1) /\ PathOf(2) # PathOf(3)

\* C7 as stated: in language-filter mode the returned list holds, in file
\* order, exactly one path per row of the filter language that has a
\* non-empty requested value.
C7_OnePathPerQualifyingRow ==
    (f_pc = "returned" /\ mode = "language") =>
        created_folders = PathsOf(Len(Rows), {})

\* C7 amended: ... exactly one path per such row whose directory creation
\* did not fail; rows of another language give no entry, equal names are
\* not de-duplicated.
C7_OnePathPerCreatedQualifyingRow ==
    (f_pc = "returned" /\ mode = "language") =>
        /\ created_folders = PathsOf(Len(Rows), failed_rows)
        /\ dirs = mkdir_parents(base_path)
                    \cup UNION {mkdir_parents(created_folders[k]) : k \in 1..Len(created_folders)}

\* rows " en"/2000/A, CN/2000/A, " en"/2000/A: the CN row is skipped and the
\* folder out/2000_A is listed once per remaining row
C7_Witness ==
    /\ f_pc = "returned" /\ mode = "language"
    /\ Len(Rows) = 3
    /\ Cell(2, s_language) = << "C", "N" >>
    /\ Cell(1, s_language) = << " ", "e", "n" >>
    /\ failed_rows = {}
    /\ skipped_rows = 1
    /\ created_folders = << << "o", "u", "t", "/", "2", "0", "0", "0", "_", "A" >>,
                            << "o", "u", "t", "/", "2", "0", "0", "0", "_", "A" >> >>

\* C8: in auto-suffix mode the resolved list has the length and order of the
\* logical list, h resolving to h_en unless h is year or size in any case;
\* when a resolved name is absent from the CSV header the call fails with an
\* error listing every absent resolved name and no row is processed.
C8_AutoSuffixResolution ==
    (mode = "auto" /\ f_pc \in {"rows", "returned", "raised"} /\ csv_file.exists) =>
        /\ Len(actual_headers) = Len(header_mapping)
        /\ actual_headers = ExpectedHeaders
        /\ (HasHeader /\ AbsentHeaders # <<>>) =>
               /\ f_pc = "raised"
               /\ raised.names = AbsentHeaders
               /\ row_idx = 0
               /\ created_folders = <<>>
               /\ dirs \subseteq mkdir_parents(base_path)

\* headers Size,title against the columns language,year,title: Size passes
\* through unsuffixed and the error lists Size and title_en
C8_Witness ==
    /\ mode = "auto" /\ f_pc = "raised"
    /\ header_mapping = << s_Size, s_title >>
    /\ actual_headers = << s_Size, s_title_en >>
    /\ raised.names = << s_Size, s_title_en >>
    /\ Len(Rows) >= 1

\* the trimmed value of header h in row j, a missing field read as ""
ValueOrEmpty(j, h) == IF Cell(j, h) = NoneVal THEN <<>> ELSE Trimmed(Cell(j, h))

\* the non-empty trimmed values of row j, in header order
SegmentsOf(j) ==
    SelectSeq([i \in 1..Len(ExpectedHeaders) |-> ValueOrEmpty(j, ExpectedHeaders[i])],
              LAMBDA v : v # <<>>)

PassesFilter(j) ==
    mode = "language" => str_upper(ValueOrEmpty(j, s_language)) = << "E", "N" >>

NamedPathOf(j) ==
    path_join(base_path, sanitize_folder_name(str_join(separator, SegmentsOf(j))))

\* the paths of rows 1..j whose directory was created
RECURSIVE NamedPaths(_)
NamedPaths(j) ==
    IF j = 0 THEN <<>>
    ELSE IF PassesFilter(j) /\ SegmentsOf(j) # <<>> /\ j \notin failed_rows
    THEN Append(NamedPaths(j - 1), NamedPathOf(j))
    ELSE NamedPaths(j - 1)

\* C13: in both modes the folder name of a processed row is the separator
\* join of exactly the non-empty trimmed values of the resolved headers, in
\* header order; an empty, whitespace-only or missing value (a row with fewer
\* fields than the header) counts as the empty string, gives no segment and
\* fails neither the row nor the batch.
C13_MissingValueIsEmptySegment ==
    (HasHeader /\ ~PreconditionFails /\ f_pc \in {"rows", "returned", "raised"}) =>
        /\ f_pc # "raised"
        /\ created_folders = NamedPaths(IF f_pc = "rows" THEN row_idx - 1 ELSE Len(Rows))

BaseComponents == PathComponents(base_path)

\* base_path joined with the empty name
BasePathItself == base_path \o << "/" >>

\* one path component: not empty, no path separator in it, neither "." nor ".."
IsSingleName(name) ==
    /\ name # <<>>
    /\ ~InSeq("/", name)
    /\ ~InSeq("\\", name)
    /\ name \notin { << "." >>, << ".", "." >> }

\* path is base_path itself or base_path joined with one name
IsChildOrBasePath(path) ==
    /\ Len(path) > Len(base_path)
    /\ SubSeq(path, 1, Len(base_path) + 1) = BasePathItself
    /\ (path = BasePathItself \/ IsSingleName(SubSeq(path, Len(base_path) + 2, Len(path))))

\* the rows the loop has gone through
ProcessedRows ==
    IF f_pc = "returned" THEN 1..Len(Rows)
    ELSE IF f_pc \in {"rows", "raised"} THEN 1..(row_idx - 1)
    ELSE {}

\* C14: whatever the CSV content, the header list and the separator, every
\* path a folder-derivation mode creates or records is base_path joined with
\* one name without a path separator: a direct child of base_path, or
\* base_path itself when the joined name sanitizes to the empty string, in
\* which case no new directory appears and the path is recorded all the same;
\* no directory is created outside base_path or more than one level below it.
C14_PathsAreDirectChildren ==
    /\ \A k \in 1..Len(created_folders) : IsChildOrBasePath(created_folders[k])
    /\ \A d \in dirs :
           \/ d = BaseComponents
           \/ /\ Len(d) = Len(BaseComponents) + 1
              /\ SubSeq(d, 1, Len(BaseComponents)) = BaseComponents
              /\ IsSingleName(d[Len(d)])
    /\ dirs \ {BaseComponents} =
           {PathComponents(created_folders[k]) :
                k \in {i \in 1..Len(created_folders) : created_folders[i] # BasePathItself}}
    /\ \A j \in ProcessedRows :
           (Qualifies(j) /\ j \notin failed_rows
                /\ folder_name(csv_file.fieldnames, Rows[j], ExpectedHeaders) = <<>>)
               => InSeq(BasePathItself, created_folders)

\* separator "/": the row 2000, a/b gave the direct child out/2000_a_b and the
\* row "", " ." gave base_path itself, recorded without a new directory
C14_Witness ==
    /\ f_pc = "returned"
    /\ mode = "auto"
    /\ separator = << "/" >>
    /\ created_folders = << << "o", "u", "t", "/", "2", "0", "0", "0", "_", "a", "_", "b" >>,
                            BasePathItself >>
    /\ dirs = { BaseComponents,
                Append(BaseComponents, << "2", "0", "0", "0", "_", "a", "_", "b" >>) }

\* ------------------------------------------------------------------------
\* Properties of CSVReorder.reorder_csv
\* ------------------------------------------------------------------------
Data == input_file.data

KeyOf(n) == create_sort_key(config, input_file.fieldnames, Data[n])

KeysEqual(k1, k2) ==
    Len(k1) = Len(k2) /\ \A p \in 1..Len(k1) : part_eq(k1[p], k2[p])

\* the place of input row n in the written output
Pos(n) == CHOOSE k \in 1..Len(sorted_data) : sorted_data[k] = n

OutputIsPermutation ==
    /\ Len(sorted_data) = Len(Data)
    /\ \A n \in 1..Len(Data) : \E k \in 1..Len(sorted_data) : sorted_data[k] = n
    /\ out_file.exists
    /\ out_file.rows =
           [k \in 1..Len(sorted_data) |-> dict_to_list(input_file.fieldnames, Data[sorted_data[k]])]

\* C1: the reorder is stable, with reverse false or true: two rows whose
\* composite sort keys are equal appear in the written output in the same
\* relative order as in the input.
C1_ReorderIsStable ==
    r_pc = "returned" =>
        /\ OutputIsPermutation
        /\ \A i, j \in 1..Len(Data) :
               (i < j /\ KeysEqual(KeyOf(i), KeyOf(j))) => Pos(i) < Pos(j)

\* a reverse sort moved rows while rows 1 and 3, of equal keys, kept their order
C1_Witness ==
    /\ r_pc = "returned"
    /\ config.reverse
    /\ Len(Data) = 3
    /\ KeysEqual(KeyOf(1), KeyOf(3))
    /\ ~KeysEqual(KeyOf(1), KeyOf(2))
    /\ sorted_data = << 2, 1, 3 >>

\* the file was read, has data rows and every configured column
ReorderInputIsValid ==
    /\ input_file.exists /\ ~input_file.zero_bytes /\ input_file.sniffable
    /\ input_file.fieldnames # NoFieldnames
    /\ Data # <<>>
    /\ \A c \in 1..Len(config.sort_columns) :
           InSeq(config.sort_columns[c].name, input_file.fieldnames)
    /\ config.use_language_sorting =>
           /\ InSeq(s_language, input_file.fieldnames)
           /\ \A n \in 1..Len(Data) :
                  row_get(input_file.fieldnames, Data[n], s_language, <<>>) # NoneVal

\* C2: with an is_date sort column the reorder completes and orders the rows
\* even when the rows hold, at that key position, a parsed date, a non-empty
\* value matching no pattern and an empty value: the sort never fails on
\* mixed component types.
C2_DateColumnSortNeverFails ==
    (/\ ReorderInputIsValid
     /\ \E c \in 1..Len(config.sort_columns) : config.sort_columns[c].is_date
     /\ r_pc # "start")
        => r_pc # "raised"

\* the priority of a row's language: its place in EN, CN, after both when unknown
Rank(n) ==
    LET lang == str_strip(row_get(input_file.fieldnames, Data[n], s_language, <<>>), Whitespace)
    IN IF lang = << "E", "N" >> THEN 0 ELSE IF lang = << "C", "N" >> THEN 1 ELSE 2

\* C3: with language sorting (reverse false) the language priority is the
\* primary key: rows of an earlier language of language_order precede rows of
\* a later one, rows of an unknown language follow all known ones, and rows
\* of the same language with identical remaining keys keep their input order.
C3_LanguagePriorityIsPrimary ==
    (r_pc = "returned" /\ config.use_language_sorting /\ ~config.reverse) =>
        /\ OutputIsPermutation
        /\ \A i, j \in 1..Len(Data) : Rank(i) < Rank(j) => Pos(i) < Pos(j)
        /\ \A i, j \in 1..Len(Data) :
               (i < j /\ Rank(i) = Rank(j) /\ KeysEqual(Tail(KeyOf(i)), Tail(KeyOf(j))))
                   => Pos(i) < Pos(j)

\* languages FR, "CN ", EN in input order come out as EN, CN, FR
C3_Witness ==
    /\ r_pc = "returned" /\ config.use_language_sorting /\ ~config.reverse
    /\ Len(Data) = 3
    /\ Rank(1) = 2 /\ Rank(2) = 1 /\ Rank(3) = 0
    /\ sorted_data = << 3, 2, 1 >>

\* every configured name that the CSV header lacks
MissingNames ==
    ({config.sort_columns[c].name : c \in 1..Len(config.sort_columns)}
        \ {input_file.fieldnames[i] : i \in 1..Len(input_file.fieldnames)})
    \cup (IF config.use_language_sorting /\ ~InSeq(s_language, input_file.fieldnames)
          THEN {s_language} ELSE {})

ReadableTable ==
    /\ input_file.exists /\ ~input_file.zero_bytes /\ input_file.sniffable
    /\ input_file.fieldnames # NoFieldnames

\* C10: on a table with a data row the reorder fails before sorting when a
\* sort column, or the language column with language sorting, is absent, and
\* the error lists every missing name together; a zero-byte file or a table
\* without data rows fails with the empty-input / empty-data error instead.
C10_MissingColumnsAllListed ==
    r_pc # "start" =>
        /\ (ReadableTable /\ Data # <<>> /\ MissingNames # {}) =>
               /\ r_pc = "raised"
               /\ r_result.names = MissingNames
               /\ sorted_data = <<>>
        /\ (input_file.exists /\ input_file.zero_bytes) =>
               /\ r_pc = "raised"
               /\ r_result.text = "Error reading CSV file: CSV file is empty"
        /\ (ReadableTable /\ Data = <<>>) =>
               /\ r_pc = "raised"
               /\ r_result.text = "The input CSV file contains no data rows"

\* the output file holds the header and every sorted row
OutputIsComplete ==
    /\ out_file.exists
    /\ out_file.fieldnames = input_file.fieldnames
    /\ Len(sorted_data) = Len(Data)
    /\ Len(out_file.rows) = Len(Data)
    /\ \A k \in 1..Len(Data) :
           out_file.rows[k] = dict_to_list(input_file.fieldnames, Data[sorted_data[k]])

\* C11: reorder_csv never leaves a partially written output file: the output
\* file is untouched until the existence check, the read, the empty-data
\* check, the column validation and the whole sort have succeeded, and after
\* a call that ended in failure, a failure while writing rows included, the
\* output file is absent or holds the header and all sorted rows, never a
\* strict prefix of them.
C11_NoPartialOutputFile ==
    /\ r_pc \in {"start", "sorted"} => out_file = NoFile
    /\ (r_pc = "raised" /\ sorted_data = <<>>) => out_file = NoFile
    /\ r_pc = "raised" => (out_file = NoFile \/ OutputIsComplete)

\* C12: reorder_csv_safe never propagates a failure: it returns the path
\* reorder_csv returned when reorder_csv succeeded, and None exactly when
\* reorder_csv failed, whatever the failure was.
C12_SafeNeverPropagates ==
    safe_result # NoResult =>
        /\ safe_result.kind = "returned"
        /\ r_pc = "returned" => (safe_result.text = r_result.text /\ safe_result.text # "None")
        /\ r_pc = "raised" => safe_result.text = "None"

\* None came back for a failure raised while the rows were written
C12_Witness ==
    /\ r_pc = "raised"
    /\ sorted_data # <<>>
    /\ out_file.exists
    /\ r_result.kind = "CSVReorderError"
    /\ safe_result = [kind |-> "returned", text |-> "None"]

====
